---- MODULE Spec2Model ----
(***************************************************************************)
(* A model of commitgen (aevrHQ/commitgen): the change analyzer, the two   *)
(* rule-based suggesters, the orchestrator's run, the style-profile cache  *)
(* and the multi-commit partitioner.                                       *)
(*                                                                         *)
(* Text is modelled as a sequence of one-character strings, so that the    *)
(* regular expressions and the includes() tests of the source are computed *)
(* character by character.                                                 *)
(***************************************************************************)
EXTENDS Integers, Sequences, FiniteSets, TLC

VARIABLES
    \* -- analyzeChanges, on its own (src/index.ts:41-66)
    rawStaged,      \* what `git diff --cached --stat` prints
    rawUnstaged,    \* what `git diff --stat` prints
    rawDiff,        \* what `git diff --cached` prints
    aPc,            \* "start" | "done"
    aResult,        \* the GitAnalysis returned
    \* -- the two rule-based suggesters, on their own
    sAnalysis,      \* the GitAnalysis given to both
    sCalled,        \* which of "orchestrator", "provider" has been called
    sOrch,          \* what CommitGen.getFallbackSuggestions returned
    sProv,          \* what VercelGoogleProvider.getFallbackSuggestions returned
    \* -- CommitGen.run, started by the command line (src/index.ts:126-286, 365-375)
    rPc,            \* where the run is
    rFlags,         \* the command line: [push, noverify, noAi]
    rOptions,       \* the options commander hands to run
    rRepo,          \* the repository: [isRepo, staged, unstaged, diff]
    rAnalysis,      \* analysis
    rAi,            \* what the AI side did: [outcome, response]
    rSuggestions,   \* suggestions
    rChoices,       \* choices of the selection menu
    rSelected,      \* selected
    rMessage,       \* commitMessage
    rGit,           \* the git commands issued through exec, in order
    rConsole,       \* what was printed, in order
    rExit,          \* the exit status, -1 while the process runs
    \* -- CommitHistoryAnalyzer's cached profile (src/utils/commit-history.ts)
    hNow,           \* the clock, in minutes
    hLog,           \* the types of the commits of the repository, latest last
    hCache,         \* the one cache slot: [present, profile, at]
    hCalls,         \* how many times the cached accessor was called
    hComputed,      \* how many times the profile was computed
    hReturned,      \* what the last call returned
    \* -- MultiCommitAnalyzer (src/utils/multi-commit.ts)
    pFiles,         \* the file paths given to the partitioner
    pPc,            \* "start" | "done"
    pResult,        \* [shouldSplit, groups]
    \* -- formatCommitMessage on its own
    fMsg,           \* the CommitMessage given
    fPc,            \* "start" | "done"
    fOut            \* the text returned

avars == <<rawStaged, rawUnstaged, rawDiff, aPc, aResult>>
svars == <<sAnalysis, sCalled, sOrch, sProv>>

rvars == <<rPc, rFlags, rOptions, rRepo, rAnalysis, rAi, rSuggestions, rChoices,
           rSelected, rMessage, rGit, rConsole, rExit>>

hvars == <<hNow, hLog, hCache, hCalls, hComputed, hReturned>>
pvars == <<pFiles, pPc, pResult>>
fvars == <<fMsg, fPc, fOut>>

vars == <<avars, svars, rvars, hvars, pvars, fvars>>

----------------------------------------------------------------------------
(* Bounds of the model *)

MaxStatLen == 6
MaxDiffLen == 5
MaxFiles == 2
MaxLines == 25

----------------------------------------------------------------------------
(* Text helpers *)

\* The sequences over S of length at most n.
SeqsUpTo(S, n) == UNION {[1..k -> S] : k \in 0..n}

\* ECMAScript LineTerminator (U+2028 and U+2029 are left out of the alphabets).
LineTerminators == {"\n", "\r"}

\* ECMAScript \s, restricted to the characters of the alphabets.
WhiteSpace == {" ", "\t", "\n", "\r"}

RECURSIVE TrimStart(_)
TrimStart(s) ==
    IF s # <<>> /\ Head(s) \in WhiteSpace THEN TrimStart(Tail(s)) ELSE s

RECURSIVE TrimEnd(_)
TrimEnd(s) ==
    IF s # <<>> /\ s[Len(s)] \in WhiteSpace
    THEN TrimEnd(SubSeq(s, 1, Len(s) - 1))
    ELSE s

\* String.prototype.trim
Trim(s) == TrimEnd(TrimStart(s))

\* The first index from i on at which s holds c, 0 when there is none.
RECURSIVE IndexFrom(_, _, _)
IndexFrom(s, c, i) ==
    IF i > Len(s) THEN 0
    ELSE IF s[i] = c THEN i
    ELSE IndexFrom(s, c, i + 1)

\* String.prototype.split(sep) for a one-character separator.
RECURSIVE Split(_, _)
Split(s, sep) ==
    LET i == IndexFrom(s, sep, 1)
    IN  IF i = 0 THEN <<s>>
        ELSE <<SubSeq(s, 1, i - 1)>> \o Split(SubSeq(s, i + 1, Len(s)), sep)

\* String.prototype.includes
Includes(s, t) ==
    \E i \in 1..(Len(s) - Len(t) + 1) : \A j \in 1..Len(t) : s[i + j - 1] = t[j]

----------------------------------------------------------------------------
(* CommitGen.exec and CommitGen.analyzeChanges *)

\* exec(cmd): the command's output trimmed, "" when the command fails.
\* A command is [ok |-> BOOLEAN, out |-> text].
exec(cmd) == IF cmd.ok THEN Trim(cmd.out) ELSE <<>>

\* The first index from i on at which the line holds no whitespace
\* (Len(line) + 1 when there is none): where a greedy \s* or \s+ stops.
RECURSIVE SkipWs(_, _)
SkipWs(line, i) ==
    IF i <= Len(line) /\ line[i] \in WhiteSpace THEN SkipWs(line, i + 1) ELSE i

\* \s+\| matches at index i: a run of whitespace, then '|'. The run is taken
\* whole: a shorter one is followed by whitespace, not by '|'.
BarAt(line, i) ==
    /\ i <= Len(line)
    /\ line[i] \in WhiteSpace
    /\ SkipWs(line, i) <= Len(line)
    /\ line[SkipWs(line, i)] = "|"

\* Mutant: the path is taken greedily, the longest m for which the rest of
\* the pattern matches.
RECURSIVE GreedyPath(_, _, _)
GreedyPath(line, k, m) ==
    IF k + m > Len(line) \/ line[k + m] \in LineTerminators THEN 0
    ELSE IF GreedyPath(line, k, m + 1) > 0 THEN GreedyPath(line, k, m + 1)
    ELSE IF BarAt(line, k + m + 1) THEN m
    ELSE 0

\* (.+?) from index k + 1, lazy: the shortest m >= 1 for which the rest of
\* the pattern matches, 0 when none does ('.' matches no line terminator).
RECURSIVE LazyPath(_, _, _)
LazyPath(line, k, m) ==
    IF k + m > Len(line) \/ line[k + m] \in LineTerminators THEN 0
    ELSE IF BarAt(line, k + m + 1) THEN m
    ELSE LazyPath(line, k, m + 1)

\* ^\s* with k characters, greedy: on failure one character is given back.
RECURSIVE GreedyLead(_, _)
GreedyLead(line, k) ==
    IF k < 0 THEN <<>>
    ELSE IF LazyPath(line, k, 1) > 0
         THEN <<SubSeq(line, k + 1, k + LazyPath(line, k, 1))>>
    ELSE GreedyLead(line, k - 1)

\* line.match(/^\s*(.+?)\s+\|/): <<>> when there is no match, <<match[1]>>
\* otherwise.
StatMatch(line) == GreedyLead(line, SkipWs(line, 1) - 1)

\* lines.forEach(line => { if (match) files.push(match[1]) })
RECURSIVE PushFiles(_)
PushFiles(lines) ==
    IF lines = <<>> THEN <<>>
    ELSE StatMatch(Head(lines)) \o PushFiles(Tail(lines))

\* The regular expression /^S(?!S)/m matches at index i, S being `sign`: i
\* starts the text or follows a line terminator, diff[i] is the sign and the
\* next character, if any, is not.
SignAt(diff, sign, i) ==
    /\ (i = 1 \/ diff[i - 1] \in LineTerminators)
    /\ diff[i] = sign
    /\ (i = Len(diff) \/ diff[i + 1] # sign)

\* (diff.match(/^\+(?!\+)/gm) || []).length with sign "+", and the same with
\* "-": a match is one character long, so every index that matches counts.
CountMatches(diff, sign) ==
    Cardinality({i \in 1..Len(diff) : SignAt(diff, sign, i)})

\* Mutant: the lines are counted only when something is staged.
analyzeChangesGuarded(staged, unstaged, diff) ==
    [filesChanged |-> IF staged # <<>> THEN PushFiles(Split(staged, "\n")) ELSE <<>>,
     additions    |-> IF staged # <<>> THEN CountMatches(diff, "+") ELSE 0,
     deletions    |-> IF staged # <<>> THEN CountMatches(diff, "-") ELSE 0,
     hasStaged    |-> staged # <<>>,
     hasUnstaged  |-> unstaged # <<>>,
     diff         |-> diff]

analyzeChanges(staged, unstaged, diff) ==
    [filesChanged |-> IF staged # <<>> THEN PushFiles(Split(staged, "\n")) ELSE <<>>,
     additions    |-> CountMatches(diff, "+"),
     deletions    |-> CountMatches(diff, "-"),
     hasStaged    |-> staged # <<>>,
     hasUnstaged  |-> unstaged # <<>>,
     diff         |-> diff]

----------------------------------------------------------------------------
(* Each part of the program is checked on its own: the others stay idle *)

NoAnalysis ==
    [filesChanged |-> <<>>, additions |-> 0, deletions |-> 0,
     hasStaged |-> FALSE, hasUnstaged |-> FALSE, diff |-> <<>>]

AnalyzeIdle ==
    /\ rawStaged = <<>>
    /\ rawUnstaged = <<>>
    /\ rawDiff = <<>>
    /\ aPc = "idle"
    /\ aResult = NoAnalysis

SuggestIdle ==
    /\ sAnalysis = NoAnalysis
    /\ sCalled = {}
    /\ sOrch = <<>>
    /\ sProv = <<>>

NoRepo == [isRepo |-> FALSE, staged |-> <<>>, unstaged |-> <<>>, diff |-> <<>>]
NoFlags == [push |-> FALSE, noverify |-> FALSE, noAi |-> FALSE]
NoAi == [outcome |-> "none", response |-> <<>>]

RunIdle ==
    /\ rPc = "idle"
    /\ rFlags = NoFlags
    /\ rOptions = [push |-> FALSE, noverify |-> FALSE, ai |-> TRUE]
    /\ rRepo = NoRepo
    /\ rAnalysis = NoAnalysis
    /\ rAi = NoAi
    /\ rSuggestions = <<>>
    /\ rChoices = <<>>
    /\ rSelected = <<>>
    /\ rMessage = <<>>
    /\ rGit = <<>>
    /\ rConsole = <<>>
    /\ rExit = -1

\* The profile of an empty history.
NoProfile == [sampled |-> 0, preferredTypes |-> {}]
NoCache == [present |-> FALSE, profile |-> NoProfile, at |-> 0]

HistoryIdle ==
    /\ hNow = 0
    /\ hLog = <<>>
    /\ hCache = NoCache
    /\ hCalls = 0
    /\ hComputed = 0
    /\ hReturned = NoProfile

NoPartition == [shouldSplit |-> FALSE, groups |-> <<>>]

PartitionIdle ==
    /\ pFiles = <<>>
    /\ pPc = "idle"
    /\ pResult = NoPartition

FormatIdle ==
    /\ fMsg = [none |-> TRUE]
    /\ fPc = "idle"
    /\ fOut = <<>>

----------------------------------------------------------------------------
(* CommitMessage (src/types.ts:3-9) *)

\* An optional field that is absent. It is no text: its one element is not a
\* character.
Undefined == <<"undefined">>

\* The booleans of a message, written as JSON writes them, so that an
\* optional boolean is a text or Undefined like every other optional field.
True == <<"true">>
False == <<"false">>

\* JavaScript truthiness of an optional text.
Truthy(v) == v # Undefined /\ v # <<>>

\* A commit message with the optional fields absent, as the rule-based
\* suggesters build it. A type and a fixed
\* subject are texts of one element, the word or the phrase.
Message(type, subject) ==
    [type |-> type, subject |-> subject, scope |-> Undefined,
     body |-> Undefined, breaking |-> Undefined]

\* `${v}` in a template literal.
Interpolate(v) ==
    IF v = Undefined THEN <<"u", "n", "d", "e", "f", "i", "n", "e", "d">> ELSE v

\* Array.prototype.slice(0, n)
Slice(s, n) == SubSeq(s, 1, IF Len(s) < n THEN Len(s) ELSE n)

----------------------------------------------------------------------------
(* The rule-based suggesters *)

T_test      == <<"t", "e", "s", "t">>
T_spec      == <<"s", "p", "e", "c">>
T_tests     == <<"_", "_", "t", "e", "s", "t", "s", "_", "_">>
T_README    == <<"R", "E", "A", "D", "M", "E">>
T_md        == <<".", "m", "d">>
T_config    == <<"c", "o", "n", "f", "i", "g">>
T_json      == <<".", "j", "s", "o", "n">>
T_package   == <<"p", "a", "c", "k", "a", "g", "e", ".", "j", "s", "o", "n">>

\* filesChanged.some(f => ...)
hasTests(filesChanged) ==
    \E i \in 1..Len(filesChanged) :
        \/ Includes(filesChanged[i], T_test)
        \/ Includes(filesChanged[i], T_spec)
        \/ Includes(filesChanged[i], T_tests)

hasDocs(filesChanged) ==
    \E i \in 1..Len(filesChanged) :
        \/ Includes(filesChanged[i], T_README)
        \/ Includes(filesChanged[i], T_md)

hasConfig(filesChanged) ==
    \E i \in 1..Len(filesChanged) :
        \/ Includes(filesChanged[i], T_config)
        \/ Includes(filesChanged[i], T_json)
        \/ Includes(filesChanged[i], T_package)

\* additions > deletions * 2 && additions > 20
MostlyAdded(analysis) ==
    analysis.additions > analysis.deletions * 2 /\ analysis.additions > 20

\* deletions > additions * 2 && deletions > 20
MostlyDeleted(analysis) ==
    analysis.deletions > analysis.additions * 2 /\ analysis.deletions > 20

\* if (cond) suggestions.push(msg)
PushIf(cond, msg) == IF cond THEN <<msg>> ELSE <<>>

\* The three generic candidates of the orchestrator.
OrchGeneric ==
    << Message(<<"feat">>, <<"add feature">>),
       Message(<<"fix">>, <<"fix issue">>),
       Message(<<"refactor">>, <<"refactor code">>) >>

\* Mutant: the generic candidates are never pushed.
OrchDefaultMissing(suggestions) == suggestions

\* if (suggestions.length === 0) suggestions.push(feat, fix, refactor)
OrchDefault(suggestions) ==
    IF Len(suggestions) = 0 THEN OrchGeneric ELSE suggestions

\* Mutant: the rules as an else-if chain, the first matching rule alone.
OrchRulesExclusive(analysis) ==
    IF MostlyAdded(analysis)
    THEN <<Message(<<"feat">>, <<"add new feature">>)>>
    ELSE IF MostlyDeleted(analysis)
    THEN <<Message(<<"refactor">>, <<"remove unused code">>)>>
    ELSE IF hasTests(analysis.filesChanged)
    THEN <<Message(<<"test">>, <<"add tests">>)>>
    ELSE IF hasDocs(analysis.filesChanged)
    THEN <<Message(<<"docs">>, <<"update documentation">>)>>
    ELSE PushIf(hasConfig(analysis.filesChanged),
                Message(<<"chore">>, <<"update configuration">>))

\* The five rules of CommitGen.getFallbackSuggestions, in order.
OrchRules(analysis) ==
    PushIf(MostlyAdded(analysis), Message(<<"feat">>, <<"add new feature">>))
    \o PushIf(MostlyDeleted(analysis), Message(<<"refactor">>, <<"remove unused code">>))
    \o PushIf(hasTests(analysis.filesChanged), Message(<<"test">>, <<"add tests">>))
    \o PushIf(hasDocs(analysis.filesChanged), Message(<<"docs">>, <<"update documentation">>))
    \o PushIf(hasConfig(analysis.filesChanged), Message(<<"chore">>, <<"update configuration">>))

\* CommitGen.getFallbackSuggestions
OrchFallbackSuggestions(analysis) == Slice(OrchDefault(OrchRules(analysis)), 5)

\* The path segment a file is named after: the directory under src/, else
\* the top-level directory, else the file-type token after the last '.'.
RECURSIVE LastIndex(_, _, _)
LastIndex(s, c, i) ==
    IF i < 1 THEN 0 ELSE IF s[i] = c THEN i ELSE LastIndex(s, c, i - 1)

PathToken(f) ==
    LET segs == Split(f, "/")
    IN  IF Len(segs) >= 3 /\ segs[1] = <<"s", "r", "c">> THEN segs[2]
        ELSE IF Len(segs) >= 2 THEN segs[1]
        ELSE SubSeq(f, LastIndex(f, ".", Len(f)) + 1, Len(f))

\* How many of the files are named after token t.
TokenCount(filesChanged, t) ==
    Cardinality({i \in 1..Len(filesChanged) : PathToken(filesChanged[i]) = t})

\* BaseProvider.inferScope: the most frequent token, the first of them on a
\* tie; absent when there is no file.
inferScope(filesChanged) ==
    IF filesChanged = <<>> THEN Undefined
    ELSE LET best == CHOOSE i \in 1..Len(filesChanged) :
                 /\ \A j \in 1..Len(filesChanged) :
                       TokenCount(filesChanged, PathToken(filesChanged[j]))
                           <= TokenCount(filesChanged, PathToken(filesChanged[i]))
                 /\ \A j \in 1..(i - 1) :
                       TokenCount(filesChanged, PathToken(filesChanged[j]))
                           < TokenCount(filesChanged, PathToken(filesChanged[i]))
         IN  PathToken(filesChanged[best])

\* BaseProvider.inferFeatureType: the subject phrase, from the same token.
inferFeatureType(filesChanged) == inferScope(filesChanged)

\* Mutant: the provider's copy without the configuration rule.
ProvRulesWithoutConfig(analysis) ==
    PushIf(MostlyAdded(analysis),
           [Message(<<"feat">>,
                    <<"add ">> \o Interpolate(inferFeatureType(analysis.filesChanged)))
               EXCEPT !.scope = inferScope(analysis.filesChanged)])
    \o PushIf(MostlyDeleted(analysis),
              Message(<<"refactor">>,
                      <<"remove unused ">>
                          \o Interpolate(inferFeatureType(analysis.filesChanged))))
    \o PushIf(hasTests(analysis.filesChanged),
              Message(<<"test">>,
                      <<"add tests for ">> \o Interpolate(inferScope(analysis.filesChanged))))
    \o PushIf(hasDocs(analysis.filesChanged), Message(<<"docs">>, <<"update documentation">>))

\* The five rules of VercelGoogleProvider.getFallbackSuggestions, in order.
ProvRules(analysis) ==
    PushIf(MostlyAdded(analysis),
           [Message(<<"feat">>,
                    <<"add ">> \o Interpolate(inferFeatureType(analysis.filesChanged)))
               EXCEPT !.scope = inferScope(analysis.filesChanged)])
    \o PushIf(MostlyDeleted(analysis),
              Message(<<"refactor">>,
                      <<"remove unused ">>
                          \o Interpolate(inferFeatureType(analysis.filesChanged))))
    \o PushIf(hasTests(analysis.filesChanged),
              Message(<<"test">>,
                      <<"add tests for ">> \o Interpolate(inferScope(analysis.filesChanged))))
    \o PushIf(hasDocs(analysis.filesChanged), Message(<<"docs">>, <<"update documentation">>))
    \o PushIf(hasConfig(analysis.filesChanged), Message(<<"chore">>, <<"update configuration">>))

\* Mutant: the generic candidate is a fix.
ProvDefaultFix(suggestions, analysis) ==
    IF Len(suggestions) = 0
    THEN << Message(<<"fix">>,
                    <<"update ">> \o Interpolate(inferScope(analysis.filesChanged))) >>
    ELSE suggestions

\* if (suggestions.length === 0) suggestions.push(feat)
ProvDefault(suggestions, analysis) ==
    IF Len(suggestions) = 0
    THEN << Message(<<"feat">>,
                    <<"update ">> \o Interpolate(inferScope(analysis.filesChanged))) >>
    ELSE suggestions

\* VercelGoogleProvider.getFallbackSuggestions
ProvFallbackSuggestions(analysis) == ProvDefault(ProvRules(analysis), analysis)

----------------------------------------------------------------------------
(* The suggesters on their own: every short file list, every pair of counts *)

F_Button  == <<"s", "r", "c", "/", "c", "o", "m", "p", "o", "n", "e", "n", "t", "s", "/",
               "B", "u", "t", "t", "o", "n", ".", "t", "s", "x">>
F_SpecDoc == <<"d", "o", "c", "s", "/", "s", "p", "e", "c", ".", "m", "d">>
F_Test    == <<"_", "_", "t", "e", "s", "t", "s", "_", "_", "/", "a", ".", "t", "e", "s", "t", ".", "t", "s">>
F_Readme  == <<"R", "E", "A", "D", "M", "E", ".", "m", "d">>
F_Package == <<"p", "a", "c", "k", "a", "g", "e", ".", "j", "s", "o", "n">>

FilePool == {F_Button, F_SpecDoc, F_Test, F_Readme, F_Package}

\* The file lists of the stat output: no file is listed twice.
FileLists ==
    {fs \in SeqsUpTo(FilePool, MaxFiles) :
        \A i, j \in 1..Len(fs) : fs[i] = fs[j] => i = j}

\* The pairs <<additions, deletions>>: every small pair, and the 45
\* additions and 12 deletions of the specification's scenario.
LineCounts == ((0..MaxLines) \X (0..MaxLines)) \cup {<<45, 12>>}

InitSuggest ==
    /\ \E files \in FileLists, ad \in LineCounts :
          sAnalysis = [NoAnalysis EXCEPT !.filesChanged = files, !.additions = ad[1],
                                         !.deletions = ad[2], !.hasStaged = TRUE]
    /\ sCalled = {}
    /\ sOrch = <<>>
    /\ sProv = <<>>
    /\ AnalyzeIdle
    /\ RunIdle
    /\ HistoryIdle
    /\ PartitionIdle
    /\ FormatIdle

OrchFallback ==
    /\ "orchestrator" \notin sCalled
    /\ sOrch' = OrchFallbackSuggestions(sAnalysis)
    /\ sCalled' = sCalled \cup {"orchestrator"}
    /\ UNCHANGED <<sAnalysis, sProv>>
    /\ UNCHANGED <<avars, rvars, hvars, pvars, fvars>>

ProvFallback ==
    /\ "orchestrator" \in sCalled
    /\ "provider" \notin sCalled
    /\ sProv' = ProvFallbackSuggestions(sAnalysis)
    /\ sCalled' = sCalled \cup {"provider"}
    /\ UNCHANGED <<sAnalysis, sOrch>>
    /\ UNCHANGED <<avars, rvars, hvars, pvars, fvars>>

NextSuggest == OrchFallback \/ ProvFallback

SpecSuggest == InitSuggest /\ [][NextSuggest]_vars

----------------------------------------------------------------------------
(* Claims about the rule-based suggesters *)

\* The five rules as the specification words them, by number.
RuleHolds(r, analysis) ==
    CASE r = 1 -> analysis.additions > 2 * analysis.deletions /\ analysis.additions > 20
      [] r = 2 -> analysis.deletions > 2 * analysis.additions /\ analysis.deletions > 20
      [] r = 3 -> \E i \in 1..Len(analysis.filesChanged) :
                      \E t \in {T_test, T_spec, T_tests} :
                          Includes(analysis.filesChanged[i], t)
      [] r = 4 -> \E i \in 1..Len(analysis.filesChanged) :
                      \E t \in {T_README, T_md} : Includes(analysis.filesChanged[i], t)
      [] r = 5 -> \E i \in 1..Len(analysis.filesChanged) :
                      \E t \in {T_config, T_json, T_package} :
                          Includes(analysis.filesChanged[i], t)

RuleType == << <<"feat">>, <<"refactor">>, <<"test">>, <<"docs">>, <<"chore">> >>

\* The rules that match, in the order of their numbers.
MatchingRules(analysis) ==
    SelectSeq(<<1, 2, 3, 4, 5>>, LAMBDA r : RuleHolds(r, analysis))

Types(result) == [i \in 1..Len(result) |-> result[i].type]

\* One candidate per matching rule and no other, in the order of the rules.
OnePerMatchingRule(result, analysis) ==
    LET matching == MatchingRules(analysis)
    IN  Types(result) = [i \in 1..Len(matching) |-> RuleType[matching[i]]]

\* C2: for every GitAnalysis both suggesters return between 1 and 5 candidates.
C2_LengthOneToFive ==
    /\ "orchestrator" \in sCalled => Len(sOrch) \in 1..5
    /\ "provider" \in sCalled => Len(sProv) \in 1..5

\* Four rules match at once (rules 1 and 2 exclude one another) and both
\* suggesters return four candidates.
C2_Witness ==
    /\ sCalled = {"orchestrator", "provider"}
    /\ Len(MatchingRules(sAnalysis)) = 4
    /\ Len(sOrch) = 4
    /\ Len(sProv) = 4

\* C3: when at least one of the five rules matches, both suggesters return
\* exactly one candidate per matching rule and no other, in the order feat,
\* refactor, test, docs, chore; no matching rule is suppressed by another.
C3_OnePerMatchingRule ==
    (sCalled # {} /\ MatchingRules(sAnalysis) # <<>>) =>
        /\ "orchestrator" \in sCalled => OnePerMatchingRule(sOrch, sAnalysis)
        /\ "provider" \in sCalled => OnePerMatchingRule(sProv, sAnalysis)

\* Rules 2, 3 and 5 match, rules 1 and 4 do not, and both suggesters return
\* refactor, test, chore.
C3_Witness ==
    /\ sCalled = {"orchestrator", "provider"}
    /\ MatchingRules(sAnalysis) = <<2, 3, 5>>
    /\ Types(sOrch) = << <<"refactor">>, <<"test">>, <<"chore">> >>
    /\ Types(sProv) = << <<"refactor">>, <<"test">>, <<"chore">> >>

IsSingleFeat(result) == Len(result) = 1 /\ result[1].type = <<"feat">>

\* C4 as stated: when none of the five rules matches, the suggester returns
\* a single candidate, of type feat.
C4_SingleFeat ==
    (sCalled # {} /\ MatchingRules(sAnalysis) = <<>>) =>
        /\ "orchestrator" \in sCalled => IsSingleFeat(sOrch)
        /\ "provider" \in sCalled => IsSingleFeat(sProv)

\* C4 amended: when none of the five rules matches, the first candidate is a
\* generic feat; the provider returns it alone, the orchestrator returns it
\* followed by a generic fix and a generic refactor.
C4_GenericFeatFirst ==
    (sCalled # {} /\ MatchingRules(sAnalysis) = <<>>) =>
        /\ "orchestrator" \in sCalled =>
              Types(sOrch) = << <<"feat">>, <<"fix">>, <<"refactor">> >>
        /\ "provider" \in sCalled => IsSingleFeat(sProv)

\* No rule matches for one component file with 10 additions and 10
\* deletions, and both suggesters have answered.
C4_Witness ==
    /\ sCalled = {"orchestrator", "provider"}
    /\ sAnalysis.filesChanged = <<F_Button>>
    /\ sAnalysis.additions = 10
    /\ sAnalysis.deletions = 10
    /\ MatchingRules(sAnalysis) = <<>>
    /\ Len(sOrch) = 3
    /\ Len(sProv) = 1

T_component == <<"c", "o", "m", "p", "o", "n", "e", "n", "t">>

\* The feat candidate of rule 1 carries a scope; for the one file
\* src/components/Button.tsx it is derived from "components".
FeatHasScope(result, analysis) ==
    /\ Len(result) >= 1
    /\ result[1].type = <<"feat">>
    /\ Truthy(result[1].scope)
    /\ (analysis.filesChanged = <<F_Button>> => Includes(result[1].scope, T_component))

\* C5: whenever rule 1 fires on a non-empty file list, the feat candidate of
\* either suggester carries a scope inferred from the paths; for 45
\* additions, 12 deletions and src/components/Button.tsx the scope is derived
\* from components.
C5_FeatHasScope ==
    (sCalled # {} /\ RuleHolds(1, sAnalysis) /\ sAnalysis.filesChanged # <<>>) =>
        /\ "orchestrator" \in sCalled => FeatHasScope(sOrch, sAnalysis)
        /\ "provider" \in sCalled => FeatHasScope(sProv, sAnalysis)

\* C14 as claimed: for every GitAnalysis the two forms return lists of the
\* same length with the same commit type at every position.
C14_SameTypes ==
    sCalled = {"orchestrator", "provider"} => Types(sOrch) = Types(sProv)

\* C14: for every GitAnalysis at least one rule matches, the two forms
\* return lists of the same length with the same commit type at every
\* position; when no rule matches, the orchestrator returns feat, fix,
\* refactor and the provider feat alone.
C14_SameTypesWhenARuleMatches ==
    sCalled = {"orchestrator", "provider"} =>
        IF MatchingRules(sAnalysis) # <<>>
        THEN Types(sOrch) = Types(sProv)
        ELSE /\ Types(sOrch) = << <<"feat">>, <<"fix">>, <<"refactor">> >>
             /\ Types(sProv) = << <<"feat">> >>

\* Both forms ran on an analysis with three matching rules: the same types,
\* not the same candidates.
C14_Witness ==
    /\ sCalled = {"orchestrator", "provider"}
    /\ Len(MatchingRules(sAnalysis)) = 3
    /\ Types(sOrch) = Types(sProv)
    /\ Len(sOrch) = 3
    /\ sOrch # sProv

----------------------------------------------------------------------------
(* The analyzer on its own: every short stat output and every short diff *)

StatAlphabet == {"x", " ", "|", "\n"}
DiffAlphabet == {"+", "-", "x", "\n", "\r"}

\* " src/a.ts | 2 +-\n README.md | 1 +\n 2 files changed"
ExampleStat ==
    <<" ", "s", "r", "c", "/", "a", ".", "t", "s", " ", "|", " ", "2", " ", "+", "-", "\n",
      " ", "R", "E", "A", "D", "M", "E", ".", "m", "d", " ", "|", " ", "1", " ", "+", "\n",
      " ", "2", " ", "f", "i", "l", "e", "s", " ", "c", "h", "a", "n", "g", "e", "d">>

\* "+++ a\n+foo\n-bar\n--- b\n"
ExampleDiff ==
    <<"+", "+", "+", " ", "a", "\n", "+", "f", "o", "o", "\n",
      "-", "b", "a", "r", "\n", "-", "-", "-", " ", "b", "\n">>

\* " a | b | 2 +": the stat line of a file named "a | b"
BarStat == <<" ", "a", " ", "|", " ", "b", " ", "|", " ", "2", " ", "+">>

StatPool == {<<>>, ExampleStat, BarStat}
DiffPool == {<<>>, ExampleDiff}

InitAnalyze ==
    /\ \/ /\ rawStaged \in StatPool
          /\ rawDiff \in SeqsUpTo(DiffAlphabet, MaxDiffLen)
       \/ /\ rawStaged \in SeqsUpTo(StatAlphabet, MaxStatLen)
          /\ rawDiff \in DiffPool
    /\ rawUnstaged \in {<<>>, ExampleStat}
    /\ aPc = "start"
    /\ aResult = NoAnalysis
    /\ SuggestIdle
    /\ RunIdle
    /\ HistoryIdle
    /\ PartitionIdle
    /\ FormatIdle

AnalyzeChanges ==
    /\ aPc = "start"
    /\ aResult' = analyzeChanges(exec([ok |-> TRUE, out |-> rawStaged]),
                                 exec([ok |-> TRUE, out |-> rawUnstaged]),
                                 exec([ok |-> TRUE, out |-> rawDiff]))
    /\ aPc' = "done"
    /\ UNCHANGED <<rawStaged, rawUnstaged, rawDiff>>
    /\ UNCHANGED <<svars, rvars, hvars, pvars, fvars>>

NextAnalyze == AnalyzeChanges

SpecAnalyze == InitAnalyze /\ [][NextAnalyze]_vars

----------------------------------------------------------------------------
(* Claims about analyzeChanges *)

\* A line begins with exactly one `sign`.
SinglePrefix(line, sign) ==
    /\ Len(line) >= 1
    /\ line[1] = sign
    /\ (Len(line) = 1 \/ line[2] # sign)

\* The number of lines of `text` that begin with exactly one `sign`.
PrefixedLines(text, sign) ==
    LET lines == Split(text, "\n")
    IN  Cardinality({i \in 1..Len(lines) : SinglePrefix(lines[i], sign)})

\* C6: for every diff text, additions is the number of lines that begin with
\* exactly one '+' and deletions the number of lines that begin with exactly
\* one '-'; the header lines '+++ ...' and '--- ...' count in neither, and the
\* diff '+++ a', '+foo', '-bar', '--- b' gives additions = 1, deletions = 1.
C6_LineCounts ==
    aPc = "done" =>
        /\ aResult.additions = PrefixedLines(aResult.diff, "+")
        /\ aResult.deletions = PrefixedLines(aResult.diff, "-")
        /\ (rawDiff = ExampleDiff => aResult.additions = 1 /\ aResult.deletions = 1)

\* The number of leading whitespace characters of a line.
LeadWs(line) ==
    CHOOSE w \in 0..Len(line) :
        /\ \A i \in 1..w : line[i] \in WhiteSpace
        /\ (w = Len(line) \/ line[w + 1] \notin WhiteSpace)

\* Where the runs of whitespace that are followed by '|' start.
BarRuns(line) ==
    {p \in 1..Len(line) :
        /\ line[p] \in WhiteSpace
        /\ (p = 1 \/ line[p - 1] \notin WhiteSpace)
        /\ \E q \in (p + 1)..Len(line) :
              /\ \A i \in p..(q - 1) : line[i] \in WhiteSpace
              /\ line[q] = "|"}

Least(S) == CHOOSE x \in S : \A y \in S : x <= y

\* The text of the line before its first run of whitespace followed by '|'
\* (nothing when there is no such run, or no text before it).
PathBeforeRun(line) ==
    IF BarRuns(line) = {} \/ Least(BarRuns(line)) = 1 THEN <<>>
    ELSE <<SubSeq(line, 1, Least(BarRuns(line)) - 1)>>

\* The same with the line's leading whitespace skipped; a line that has only
\* its leading whitespace, of two characters or more, before its only such
\* '|' gives the last but one of these whitespace characters.
PathAfterLeadWs(line) ==
    LET w    == LeadWs(line)
        runs == {p \in BarRuns(line) : p > w + 1}
    IN  IF runs # {} THEN <<SubSeq(line, w + 1, Least(runs) - 1)>>
        ELSE IF w >= 2 /\ w < Len(line) /\ line[w + 1] = "|" THEN <<<<line[w - 1]>>>>
        ELSE <<>>

RECURSIVE PathsOf(_, _)
PathsOf(P(_), lines) ==
    IF lines = <<>> THEN <<>> ELSE P(Head(lines)) \o PathsOf(P, Tail(lines))

IsGitAnalysis(a) ==
    /\ a.additions \in Nat
    /\ a.deletions \in Nat
    /\ DOMAIN a.filesChanged = 1..Len(a.filesChanged)
    /\ \A i \in 1..Len(a.filesChanged) : Len(a.filesChanged[i]) >= 1
    /\ a.hasStaged \in BOOLEAN
    /\ a.hasUnstaged \in BOOLEAN

\* C8: additions and deletions depend on the diff alone, filesChanged on the
\* stat output alone, every input gives an analysis, an empty diff gives 0
\* and 0 and an empty stat output gives no file.
C8_Independent ==
    aPc = "done" =>
        LET staged   == Trim(rawStaged)
            unstaged == Trim(rawUnstaged)
            diff     == Trim(rawDiff)
        IN  /\ IsGitAnalysis(aResult)
            /\ \A s2 \in StatPool :
                  LET other == analyzeChanges(Trim(s2), unstaged, diff)
                  IN  /\ other.additions = aResult.additions
                      /\ other.deletions = aResult.deletions
            /\ \A d2 \in DiffPool :
                  analyzeChanges(staged, unstaged, Trim(d2)).filesChanged
                      = aResult.filesChanged
            /\ (diff = <<>> => aResult.additions = 0 /\ aResult.deletions = 0)
            /\ (staged = <<>> => aResult.filesChanged = <<>>)

\* Nothing is staged and the diff still counts one addition and one deletion.
C8_Witness ==
    /\ aPc = "done"
    /\ rawStaged = <<>>
    /\ rawDiff = ExampleDiff
    /\ aResult.filesChanged = <<>>
    /\ aResult.additions = 1
    /\ aResult.deletions = 1

----------------------------------------------------------------------------
(* CommitGen.formatCommitMessage *)

\* A response item that is no object: JSON null.
Null == [null |-> TRUE]

\* String.prototype.replace(/"/g, '\\"')
RECURSIVE EscapeQuotes(_)
EscapeQuotes(text) ==
    IF text = <<>> THEN <<>>
    ELSE (IF Head(text) = "\"" THEN <<"\\", "\"">> ELSE <<Head(text)>>)
         \o EscapeQuotes(Tail(text))

\* Mutant: the footer of a breaking change is left out.
formatCommitMessageNoFooter(msg) ==
    Interpolate(msg.type)
    \o (IF Truthy(msg.scope) THEN <<"(">> \o msg.scope \o <<")">> ELSE <<>>)
    \o (IF msg.breaking = True THEN <<"!">> ELSE <<>>)
    \o <<": ">> \o Interpolate(msg.subject)
    \o (IF Truthy(msg.body) THEN <<"\n", "\n">> \o msg.body ELSE <<>>)

\* if (msg.breaking): an absent breaking is undefined, which is falsy.
formatCommitMessage(msg) ==
    Interpolate(msg.type)
    \o (IF Truthy(msg.scope) THEN <<"(">> \o msg.scope \o <<")">> ELSE <<>>)
    \o (IF msg.breaking = True THEN <<"!">> ELSE <<>>)
    \o <<": ">> \o Interpolate(msg.subject)
    \o (IF Truthy(msg.body) THEN <<"\n", "\n">> \o msg.body ELSE <<>>)
    \o (IF msg.breaking = True
        THEN <<"\n", "\n", "BREAKING CHANGE:", " Major version update required">>
        ELSE <<>>)

\* The commit types of the convention (the provider's prompt lists them).
CommitTypes ==
    {"feat", "fix", "docs", "style", "refactor", "perf", "test", "build", "ci",
     "chore", "revert"}

\* The messages formatCommitMessage is given on its own.
MessagePool ==
    [type : {<<t>> : t \in CommitTypes},
     subject : {<<"add login">>, <<"drop v1 api">>},
     scope : {Undefined, <<>>, <<"auth">>},
     body : {Undefined, <<>>, <<"details">>, <<"first", "\n", "second">>},
     breaking : {True, False, Undefined}]

InitFormat ==
    /\ fMsg \in MessagePool
    /\ fPc = "start"
    /\ fOut = <<>>
    /\ AnalyzeIdle
    /\ SuggestIdle
    /\ RunIdle
    /\ HistoryIdle
    /\ PartitionIdle

FormatCommitMessage ==
    /\ fPc = "start"
    /\ fOut' = formatCommitMessage(fMsg)
    /\ fPc' = "done"
    /\ UNCHANGED fMsg
    /\ UNCHANGED <<avars, svars, rvars, hvars, pvars>>

NextFormat == FormatCommitMessage

SpecFormat == InitFormat /\ [][NextFormat]_vars

\* The index of the first element of text that is x, 0 when there is none.
FirstIndex(text, x) ==
    IF \E i \in 1..Len(text) : text[i] = x
    THEN CHOOSE i \in 1..Len(text) : text[i] = x /\ \A j \in 1..(i - 1) : text[j] # x
    ELSE 0

\* C13: the first line reads type(scope): subject, the parenthesised scope
\* being there exactly when scope is non-empty; a true breaking puts '!'
\* directly before the ': ' of the first line and ends the text with a
\* 'BREAKING CHANGE:' footer, an absent or false breaking leaves both out; a
\* non-empty body follows the first line after one blank line.
C13_Format ==
    fPc = "done" =>
        LET lines == Split(fOut, "\n")
            first == lines[1]
            colon == FirstIndex(first, ": ")
            hasScope == fMsg.scope # Undefined /\ fMsg.scope # <<>>
            hasBody == fMsg.body # Undefined /\ fMsg.body # <<>>
            body == Split(fMsg.body, "\n")
            header == SubSeq(first, 1, colon - 1)
            marked == header # <<>> /\ header[Len(header)] = "!"
            unmarked == IF marked THEN SubSeq(header, 1, Len(header) - 1) ELSE header
            footed == /\ Len(lines) >= 3
                      /\ lines[Len(lines) - 1] = <<>>
                      /\ Head(lines[Len(lines)]) = "BREAKING CHANGE:"
        IN  /\ colon > 0
            /\ SubSeq(first, colon + 1, Len(first)) = fMsg.subject
            /\ unmarked = IF hasScope THEN fMsg.type \o <<"(">> \o fMsg.scope \o <<")">>
                                      ELSE fMsg.type
            /\ marked <=> fMsg.breaking = True
            /\ footed <=> fMsg.breaking = True
            /\ "BREAKING CHANGE:" \in {fOut[i] : i \in 1..Len(fOut)} <=> fMsg.breaking = True
            /\ hasBody => /\ Len(lines) >= 2 + Len(body)
                          /\ lines[2] = <<>>
                          /\ SubSeq(lines, 3, 2 + Len(body)) = body
            /\ ~hasBody => Len(lines) = IF fMsg.breaking = True THEN 3 ELSE 1

\* A breaking change with a scope and a body of two lines was rendered.
C13_Witness ==
    /\ fPc = "done"
    /\ fMsg = [type |-> <<"feat">>, subject |-> <<"drop v1 api">>, scope |-> <<"auth">>,
               body |-> <<"first", "\n", "second">>, breaking |-> True]
    /\ fOut = <<"feat", "(", "auth", ")", "!", ": ", "drop v1 api", "\n", "\n",
                "first", "\n", "second", "\n", "\n",
                "BREAKING CHANGE:", " Major version update required">>

----------------------------------------------------------------------------
(* The command line and CommitGen.run *)

\* Mutant: push is on whatever the command line says.
CommanderAlwaysPush(flags) ==
    [push |-> TRUE, noverify |-> flags.noverify, ai |-> ~flags.noAi]

\* commander: -p and -n set push and noverify, --no-ai sets ai to false;
\* no option is named useAi.
Commander(flags) ==
    [push |-> flags.push, noverify |-> flags.noverify, ai |-> ~flags.noAi]

\* options.useAi !== false
UseAi(options) == ~("useAi" \in DOMAIN options /\ options.useAi = FALSE)

\* What the AI side does in one run. configThrows: ConfigManager throws;
\* providerThrows: createProvider or the provider's constructor throws (no
\* API key); callFails: generateText rejects; noJson: the text holds no
\* [...]; badJson: JSON.parse throws; parsed: JSON.parse returns `response`.
AiOutcomes == {"configThrows", "providerThrows", "callFails", "noJson", "badJson", "parsed"}

Valid1   == [Message(<<"feat">>, <<"add login">>) EXCEPT !.scope = <<"auth">>]
Valid2   == [Message(<<"fix">>, <<"handle empty input">>) EXCEPT !.body = <<"details">>]
Breaking == [Message(<<"refactor">>, <<"drop v1 api">>) EXCEPT !.breaking = True]
BadType  == Message(<<"feature">>, <<"add login">>)
NoSubject == Message(<<"feat">>, <<>>)

\* The arrays JSON.parse may return.
AiResponses ==
    { <<>>, <<Valid1>>, <<Valid1, Valid2, Breaking>>,
      <<Valid1, Valid2, Valid1, Valid2, Valid1, Valid2>>,
      <<BadType>>, <<NoSubject>>, <<Null>> }

\* VercelGoogleProvider.generateCommitMessage
generateCommitMessage(ai, analysis) ==
    IF ai.outcome \in {"callFails", "noJson", "badJson"}
    THEN ProvFallbackSuggestions(analysis)
    ELSE Slice(ai.response, 5)

\* Mutant: an empty list is taken as it is.
NoSuggestionsIgnored(suggestions) == FALSE

\* !suggestions || suggestions.length === 0
NoSuggestions(suggestions) == suggestions = <<>>

\* The try block of run throws.
AiThrows(ai, analysis) ==
    \/ ai.outcome \in {"configThrows", "providerThrows"}
    \/ NoSuggestions(generateCommitMessage(ai, analysis))

\* suggestions, as run leaves it before the menu.
RunSuggestions(options, ai, analysis) ==
    IF UseAi(options)
    THEN IF AiThrows(ai, analysis)
         THEN OrchFallbackSuggestions(analysis)
         ELSE generateCommitMessage(ai, analysis)
    ELSE OrchFallbackSuggestions(analysis)

\* What the generation step prints.
GenerateConsole(options, ai, analysis) ==
    IF ~UseAi(options) THEN <<>>
    ELSE (IF ai.outcome = "configThrows" THEN <<>> ELSE <<"generating">>)
         \o (IF ai.outcome \in {"callFails", "noJson", "badJson"}
             THEN <<"error generating commit message">> ELSE <<>>)
         \o (IF AiThrows(ai, analysis)
             THEN <<"ai generation failed", "falling back">> ELSE <<>>)

CustomValue == <<"__custom__">>

\* suggestions.map(...) and choices.push(custom)
RECURSIVE MapChoices(_)
MapChoices(suggestions) ==
    IF suggestions = <<>> THEN <<>>
    ELSE << [value |-> formatCommitMessage(Head(suggestions)),
             short |-> Split(formatCommitMessage(Head(suggestions)), "\n")[1]] >>
         \o MapChoices(Tail(suggestions))

Choices(suggestions) ==
    MapChoices(suggestions) \o << [value |-> CustomValue, short |-> <<"Custom message">>] >>

\* What the user may type at "Enter your commit message:".
CustomPool == { <<"w", "i", "p">>, <<"s", "a", "y", " ", "\"", "h", "i", "\"">>, <<" ">>, <<>> }

\* validate: (input) => input.trim() ? true : "Commit message cannot be empty"
validate(input) == Trim(input) # <<>>

RECURSIVE Repeat(_, _)
Repeat(text, n) == IF n = 0 THEN <<>> ELSE text \o Repeat(text, n - 1)

\* " src/components/Button.tsx | 57 +++--\n 1 file changed"
ButtonStat ==
    <<" ">> \o F_Button \o <<" ", "|", " ", "5", "7", " ", "+", "+", "+", "-", "-", "\n",
      " ", "1", " ", "f", "i", "l", "e", " ", "c", "h", "a", "n", "g", "e", "d">>

\* 45 added lines and 12 deleted lines
ButtonDiff == Repeat(<<"+", "x", "\n">>, 45) \o Repeat(<<"-", "y", "\n">>, 12)

\* The repositories the run is started in.
RepoPool ==
    { NoRepo,
      [isRepo |-> TRUE, staged |-> <<>>, unstaged |-> <<>>, diff |-> <<>>],
      [isRepo |-> TRUE, staged |-> <<>>, unstaged |-> ExampleStat, diff |-> <<>>],
      [isRepo |-> TRUE, staged |-> ExampleStat, unstaged |-> <<>>, diff |-> ExampleDiff],
      [isRepo |-> TRUE, staged |-> ButtonStat, unstaged |-> ExampleStat, diff |-> ButtonDiff] }

Init ==
    /\ rPc = "start"
    /\ rFlags \in [push : BOOLEAN, noverify : BOOLEAN, noAi : BOOLEAN]
    /\ rOptions = Commander(rFlags)
    /\ rRepo \in RepoPool
    /\ rAnalysis = NoAnalysis
    /\ rAi = NoAi
    /\ rSuggestions = <<>>
    /\ rChoices = <<>>
    /\ rSelected = <<>>
    /\ rMessage = <<>>
    /\ rGit = <<>>
    /\ rConsole = <<>>
    /\ rExit = -1
    /\ AnalyzeIdle
    /\ SuggestIdle
    /\ HistoryIdle
    /\ PartitionIdle
    /\ FormatIdle

\* if (!this.isGitRepo()) { console.error(...); process.exit(1) }
CheckRepo ==
    /\ rPc = "start"
    /\ rGit' = Append(rGit, [cmd |-> "rev-parse", ok |-> rRepo.isRepo])
    /\ IF exec([ok |-> rRepo.isRepo, out |-> <<".", "g", "i", "t">>]) # <<>>
       THEN /\ rPc' = "analyze"
            /\ UNCHANGED <<rConsole, rExit>>
       ELSE /\ rPc' = "exited"
            /\ rConsole' = Append(rConsole, "not a git repository")
            /\ rExit' = 1
    /\ UNCHANGED <<rFlags, rOptions, rRepo, rAnalysis, rAi, rSuggestions, rChoices,
                   rSelected, rMessage>>
    /\ UNCHANGED <<avars, svars, hvars, pvars, fvars>>

\* const analysis = this.analyzeChanges(); if (!analysis.hasStaged) exit(0)
Analyze ==
    /\ rPc = "analyze"
    /\ LET analysis == analyzeChanges(exec([ok |-> TRUE, out |-> rRepo.staged]),
                                      exec([ok |-> TRUE, out |-> rRepo.unstaged]),
                                      exec([ok |-> TRUE, out |-> rRepo.diff]))
       IN  /\ rAnalysis' = analysis
           /\ rGit' = rGit \o << [cmd |-> "diff --cached --stat", ok |-> TRUE],
                                 [cmd |-> "diff --stat", ok |-> TRUE],
                                 [cmd |-> "diff --cached", ok |-> TRUE] >>
           /\ IF ~analysis.hasStaged
              THEN /\ rPc' = "exited"
                   /\ rConsole' = rConsole \o <<"no staged changes">>
                          \o (IF analysis.hasUnstaged THEN <<"unstaged changes">> ELSE <<>>)
                   /\ rExit' = 0
              ELSE /\ rPc' = "generate"
                   /\ rConsole' = Append(rConsole, "analysis")
                   /\ UNCHANGED rExit
    /\ UNCHANGED <<rFlags, rOptions, rRepo, rAi, rSuggestions, rChoices, rSelected, rMessage>>
    /\ UNCHANGED <<avars, svars, hvars, pvars, fvars>>

\* if (options.useAi !== false) { try {...} catch {...} } else {...}
Generate ==
    /\ rPc = "generate"
    /\ \E outcome \in AiOutcomes, response \in AiResponses :
          /\ (outcome # "parsed" => response = <<>>)
          /\ rAi' = IF UseAi(rOptions)
                    THEN [outcome |-> outcome, response |-> response]
                    ELSE NoAi
    /\ rSuggestions' = RunSuggestions(rOptions, rAi', rAnalysis)
    /\ rConsole' = rConsole \o GenerateConsole(rOptions, rAi', rAnalysis)
    /\ rPc' = "menu"
    /\ UNCHANGED <<rFlags, rOptions, rRepo, rAnalysis, rChoices, rSelected, rMessage,
                   rGit, rExit>>
    /\ UNCHANGED <<avars, svars, hvars, pvars, fvars>>

\* const choices = suggestions.map(...); choices.push(custom). Formatting a
\* null item throws a TypeError outside every try: the run is rejected.
BuildMenu ==
    /\ rPc = "menu"
    /\ IF \E i \in 1..Len(rSuggestions) : rSuggestions[i] = Null
       THEN /\ rPc' = "crashed"
            /\ rExit' = 1
            /\ rConsole' = Append(rConsole, "suggested")
            /\ UNCHANGED rChoices
       ELSE /\ rPc' = "select"
            /\ rChoices' = Choices(rSuggestions)
            /\ rConsole' = Append(rConsole, "suggested")
            /\ UNCHANGED rExit
    /\ UNCHANGED <<rFlags, rOptions, rRepo, rAnalysis, rAi, rSuggestions, rSelected,
                   rMessage, rGit>>
    /\ UNCHANGED <<avars, svars, hvars, pvars, fvars>>

\* const { selected } = await inquirer.prompt([{ type: "list", choices }])
Select ==
    /\ rPc = "select"
    /\ \E i \in 1..Len(rChoices) :
          /\ rSelected' = rChoices[i].value
          /\ rPc' = IF rChoices[i].value = CustomValue THEN "custom" ELSE "confirm"
    /\ UNCHANGED <<rFlags, rOptions, rRepo, rAnalysis, rAi, rSuggestions, rChoices,
                   rMessage, rGit, rConsole, rExit>>
    /\ UNCHANGED <<avars, svars, hvars, pvars, fvars>>

\* const { confirmed } = await inquirer.prompt([{ type: "confirm" }])
Confirm ==
    /\ rPc = "confirm"
    /\ \E confirmed \in BOOLEAN :
          IF confirmed
          THEN rMessage' = rSelected /\ rPc' = "commit"
          ELSE UNCHANGED rMessage /\ rPc' = "custom"
    /\ UNCHANGED <<rFlags, rOptions, rRepo, rAnalysis, rAi, rSuggestions, rChoices,
                   rSelected, rGit, rConsole, rExit>>
    /\ UNCHANGED <<avars, svars, hvars, pvars, fvars>>

\* const { customMessage } = await inquirer.prompt([{ type: "input", validate }])
EnterCustom ==
    /\ rPc = "custom"
    /\ \E input \in CustomPool :
          /\ validate(input)
          /\ rMessage' = input
    /\ rPc' = "commit"
    /\ UNCHANGED <<rFlags, rOptions, rRepo, rAnalysis, rAi, rSuggestions, rChoices,
                   rSelected, rGit, rConsole, rExit>>
    /\ UNCHANGED <<avars, svars, hvars, pvars, fvars>>

\* if (!commitMessage.trim()) return; try { exec(commit); if (push) ... }
\* exec swallows the failure of a command, so nothing reaches the catch.
Commit ==
    /\ rPc = "commit"
    /\ IF Trim(rMessage) = <<>>
       THEN /\ rConsole' = Append(rConsole, "commit cancelled")
            /\ UNCHANGED rGit
       ELSE \E commitOk \in BOOLEAN, pushOk \in BOOLEAN :
              LET commit == [cmd |-> "commit", ok |-> commitOk,
                             message |-> EscapeQuotes(rMessage),
                             noverify |-> rOptions.noverify]
              IN  IF rOptions.push
                  THEN /\ rGit' = rGit \o << commit,
                                             [cmd |-> "branch --show-current", ok |-> TRUE],
                                             [cmd |-> "push", ok |-> pushOk] >>
                       /\ rConsole' = rConsole \o <<"commit successful", "pushing", "pushed">>
                  ELSE /\ pushOk
                       /\ rGit' = Append(rGit, commit)
                       /\ rConsole' = Append(rConsole, "commit successful")
    /\ rPc' = "done"
    /\ rExit' = 0
    /\ UNCHANGED <<rFlags, rOptions, rRepo, rAnalysis, rAi, rSuggestions, rChoices,
                   rSelected, rMessage>>
    /\ UNCHANGED <<avars, svars, hvars, pvars, fvars>>

Next ==
    \/ CheckRepo
    \/ Analyze
    \/ Generate
    \/ BuildMenu
    \/ Select
    \/ Confirm
    \/ EnterCustom
    \/ Commit

Spec == Init /\ [][Next]_vars

----------------------------------------------------------------------------
(* Claims about CommitGen.run *)

\* The AI generation of the run failed: configuration or construction threw,
\* the call or the parsing of its response failed, or the list was empty.
AiFailed ==
    \/ rAi.outcome \in {"configThrows", "providerThrows", "callFails", "noJson", "badJson"}
    \/ (rAi.outcome = "parsed" /\ rAi.response = <<>>)

\* The run has produced its suggestions.
Generated == rPc \in {"menu", "select", "confirm", "custom", "commit", "done", "crashed"}

\* The rule-based suggestions for the analysis, of either form.
RuleBased(suggestions, analysis) ==
    LET t == Types(suggestions)
    IN  /\ t # <<>>
        /\ IF MatchingRules(analysis) = <<>>
           THEN t \in { << <<"feat">> >>, << <<"feat">>, <<"fix">>, <<"refactor">> >> }
           ELSE OnePerMatchingRule(suggestions, analysis)

\* C1: in every run with AI enabled, a failure of the AI generation is
\* replaced by rule-based suggestions: the run does not abort, and the menu
\* always offers at least one suggestion beside the custom entry.
C1_AiFailureFallsBack ==
    /\ (Generated /\ AiFailed) =>
          /\ rPc # "crashed"
          /\ rExit \in {-1, 0}
          /\ RuleBased(rSuggestions, rAnalysis)
    /\ (Generated /\ rPc \notin {"menu", "crashed"}) =>
          /\ Len(rSuggestions) >= 1
          /\ Len(rChoices) = Len(rSuggestions) + 1

\* The provider returned an empty list, the orchestrator's rules replaced
\* it, and the menu was answered.
C1_Witness ==
    /\ rPc = "confirm"
    /\ rAi = [outcome |-> "parsed", response |-> <<>>]
    /\ rSuggestions = OrchFallbackSuggestions(rAnalysis)
    /\ Len(rChoices) >= 2

\* C12: in every run started with --no-ai no AI provider is created or
\* called, and the suggestions offered are exactly the output of the
\* rule-based suggester for the analysis.
C12_NoAiRunsRules ==
    (rFlags.noAi /\ Generated) =>
        /\ rAi = NoAi
        /\ "generating" \notin {rConsole[i] : i \in 1..Len(rConsole)}
        /\ rSuggestions = OrchFallbackSuggestions(rAnalysis)

\* The git commands of the run so far that are `cmd`, by position.
Issued(cmd) == {i \in 1..Len(rGit) : rGit[i].cmd = cmd}

Printed(line) == line \in {rConsole[i] : i \in 1..Len(rConsole)}

\* C15: in every run that reaches the commit step, a failed git commit is
\* reported as failed and ends the run with exit status 1: the run never
\* prints 'Commit successful' and never issues git push after it, also when
\* the push option is set.
C15_FailedCommitReported ==
    \A i \in Issued("commit") :
        ~rGit[i].ok =>
            /\ rExit = 1
            /\ Printed("commit failed")
            /\ ~Printed("commit successful")
            /\ Issued("push") = {}

\* C16: git commit is issued only after the repository check has passed,
\* the analysis has found staged changes and the message finally chosen is
\* not blank; a run outside a repository or with nothing staged ends
\* without git commit or git push; git push is issued only when the push
\* option is set, and only after the commit.
C16_CommitGuarded ==
    /\ \A i \in Issued("commit") :
           /\ \E j \in Issued("rev-parse") : j < i /\ rGit[j].ok
           /\ \E j \in Issued("diff --cached --stat") : j < i
           /\ rRepo.isRepo
           /\ Trim(rRepo.staged) # <<>>
           /\ rAnalysis.hasStaged
           /\ Trim(rMessage) # <<>>
           /\ rGit[i].message = EscapeQuotes(rMessage)
           /\ rMessage = rSelected \/ rMessage \in CustomPool
    /\ (~rRepo.isRepo \/ Trim(rRepo.staged) = <<>>) =>
           /\ Issued("commit") = {}
           /\ Issued("push") = {}
           /\ rPc \in {"start", "analyze", "exited"}
    /\ \A i \in Issued("push") :
           /\ rFlags.push
           /\ \E j \in Issued("commit") : j < i
    /\ Cardinality(Issued("commit")) <= 1

\* A confirmed suggestion was committed and pushed.
C16_Witness ==
    /\ rPc = "done"
    /\ rFlags.push
    /\ rMessage = rSelected
    /\ rMessage # CustomValue
    /\ Issued("commit") = {5}
    /\ Issued("push") = {7}

\* A custom message was committed after a suggestion was declined, without push.
C16_WitnessCustom ==
    /\ rPc = "done"
    /\ ~rFlags.push
    /\ rMessage \in CustomPool
    /\ rSelected # CustomValue
    /\ Issued("commit") = {5}
    /\ Issued("push") = {}

\* A CommitMessage of the convention: a known type and a subject.
ValidCommitMessage(msg) ==
    /\ msg # Null
    /\ \E t \in CommitTypes : msg.type = <<t>>
    /\ msg.subject # <<>>
    /\ msg.subject # Undefined

\* C17: every candidate that reaches the selection menu, from the AI
\* provider's parsed response or from the rule-based suggester, is a valid
\* CommitMessage: a type of the convention and a non-empty subject.
C17_MenuCandidatesValid ==
    rPc \in {"select", "confirm", "custom", "commit", "done"} =>
        \A i \in 1..Len(rSuggestions) : ValidCommitMessage(rSuggestions[i])

----------------------------------------------------------------------------
(* The cached style profile (History Profiler) *)

MaxClock == 8
MaxCommits == 2
MaxCalls == 3

\* The time-to-live of the cached profile, in minutes.
CacheTtl == 5

\* The number of latest commits a profile is built from.
SampleSize == 50

\* getProfile: the profile of the latest SampleSize commits.
getProfile(log) ==
    LET first == IF Len(log) > SampleSize THEN Len(log) - SampleSize + 1 ELSE 1
    IN  [sampled |-> Len(log) - first + 1,
         preferredTypes |-> {log[i] : i \in first..Len(log)}]

\* Mutant: the cache is also dropped when the history has changed.
CacheUsableUnlessNewCommit(cache, now, log) ==
    cache.present /\ ~(now - cache.at > CacheTtl) /\ cache.profile = getProfile(log)

\* The cache is used: it is present and not older than the time-to-live.
CacheUsable(cache, now, log) == cache.present /\ ~(now - cache.at > CacheTtl)

InitHistory ==
    /\ hNow = 0
    /\ hLog \in SeqsUpTo({"feat", "fix"}, 1)
    /\ hCache = NoCache
    /\ hCalls = 0
    /\ hComputed = 0
    /\ hReturned = NoProfile
    /\ AnalyzeIdle
    /\ SuggestIdle
    /\ RunIdle
    /\ PartitionIdle
    /\ FormatIdle

\* A minute passes.
Tick ==
    /\ hNow < MaxClock
    /\ hNow' = hNow + 1
    /\ UNCHANGED <<hLog, hCache, hCalls, hComputed, hReturned>>
    /\ UNCHANGED <<avars, svars, rvars, pvars, fvars>>

\* The repository gets a commit: no signal reaches the cache.
NewCommit ==
    /\ Len(hLog) < MaxCommits
    /\ \E type \in {"feat", "fix"} : hLog' = Append(hLog, type)
    /\ UNCHANGED <<hNow, hCache, hCalls, hComputed, hReturned>>
    /\ UNCHANGED <<avars, svars, rvars, pvars, fvars>>

\* getCachedProfile: the cached profile, recomputed when the cache is absent
\* or older than the time-to-live.
GetCachedProfile ==
    /\ hCalls < MaxCalls
    /\ hCalls' = hCalls + 1
    /\ IF CacheUsable(hCache, hNow, hLog)
       THEN /\ hReturned' = hCache.profile
            /\ UNCHANGED <<hCache, hComputed>>
       ELSE /\ hCache' = [present |-> TRUE, profile |-> getProfile(hLog), at |-> hNow]
            /\ hReturned' = getProfile(hLog)
            /\ hComputed' = hComputed + 1
    /\ UNCHANGED <<hNow, hLog>>
    /\ UNCHANGED <<avars, svars, rvars, pvars, fvars>>

NextHistory == Tick \/ NewCommit \/ GetCachedProfile

SpecHistory == InitHistory /\ [][NextHistory]_vars

\* C9: a call made less than 5 minutes after the last computation returns
\* the cached profile without recomputing it; a call made when the cache is
\* absent or older than 5 minutes recomputes and overwrites the one slot;
\* nothing but the expiry of the time-to-live invalidates the cached profile.
C9_CacheSteps ==
    [][/\ (hCalls' = hCalls + 1 /\ hCache.present /\ hNow - hCache.at < 5) =>
              /\ hReturned' = hCache.profile
              /\ hComputed' = hComputed
              /\ hCache' = hCache
       /\ (hCalls' = hCalls + 1 /\ (~hCache.present \/ hNow - hCache.at > 5)) =>
              /\ hReturned' = getProfile(hLog)
              /\ hComputed' = hComputed + 1
              /\ hCache' = [present |-> TRUE, profile |-> getProfile(hLog), at |-> hNow]
       /\ hCache' # hCache =>
              /\ hCalls' = hCalls + 1
              /\ ~hCache.present \/ hNow - hCache.at > 5
      ]_vars

\* A second call, within the five minutes and after a new commit, returned
\* the profile computed by the first: it no longer is the history's profile.
C9_Witness ==
    /\ hCalls = 2
    /\ hComputed = 1
    /\ hCache.present
    /\ hNow - hCache.at < 5
    /\ hReturned = hCache.profile
    /\ hReturned # getProfile(hLog)

\* A call after the expiry recomputed: the slot holds the second profile.
C9_WitnessExpired ==
    /\ hCalls = 2
    /\ hComputed = 2
    /\ hCache.at > 5
    /\ hReturned = getProfile(hLog)

----------------------------------------------------------------------------
(* The Multi-Commit Partitioner *)

MaxPartFiles == 4

\* The fewest distinct files, and the fewest non-empty buckets, of a split.
MinSplitFiles == 4
MinSplitConcerns == 2

T_types == <<"t", "y", "p", "e", "s">>
T_dts   == <<".", "d", ".", "t", "s">>
T_docs  == <<"d", "o", "c", "s", "/">>
T_api   == <<"a", "p", "i">>
T_css   == <<".", "c", "s", "s">>
T_src   == <<"s", "r", "c", "/">>

\* The concern of one file: the first marker, in priority order, its path has.
classify(f) ==
    IF Includes(f, T_types) \/ Includes(f, T_dts) THEN "types"
    ELSE IF Includes(f, T_test) \/ Includes(f, T_spec) \/ Includes(f, T_tests) THEN "test"
    ELSE IF Includes(f, T_README) \/ Includes(f, T_md) \/ Includes(f, T_docs) THEN "docs"
    ELSE IF Includes(f, T_config) \/ Includes(f, T_json) THEN "config"
    ELSE IF Includes(f, T_api) THEN "api"
    ELSE IF Includes(f, T_css) THEN "style"
    ELSE IF Includes(f, T_src) THEN "feature"
    ELSE "other"

\* The buckets in the order their commits are suggested in.
ConcernOrder ==
    <<"types", "config", "feature", "component", "api", "util",
      "test", "docs", "style", "other">>

\* The rank of a bucket: feature, component, api and util share one.
suggestedOrder(concern) ==
    CASE concern = "types" -> 1
      [] concern = "config" -> 2
      [] concern \in {"feature", "component", "api", "util"} -> 3
      [] concern = "test" -> 4
      [] concern = "docs" -> 5
      [] concern = "style" -> 6
      [] OTHER -> 7

\* Mutant: the files no marker claims are left out.
groupFilesWithoutOther(files) ==
    LET bucket(c) == {files[i] : i \in {j \in 1..Len(files) : classify(files[j]) = c}}
        all == [k \in 1..Len(ConcernOrder) |->
                   [concern |-> ConcernOrder[k],
                    files |-> bucket(ConcernOrder[k]),
                    suggestedOrder |-> suggestedOrder(ConcernOrder[k])]]
    IN  SelectSeq(all, LAMBDA g : g.files # {} /\ g.concern # "other")

\* The non-empty buckets of the files, in the suggested order.
groupFiles(files) ==
    LET bucket(c) == {files[i] : i \in {j \in 1..Len(files) : classify(files[j]) = c}}
        all == [k \in 1..Len(ConcernOrder) |->
                   [concern |-> ConcernOrder[k],
                    files |-> bucket(ConcernOrder[k]),
                    suggestedOrder |-> suggestedOrder(ConcernOrder[k])]]
    IN  SelectSeq(all, LAMBDA g : g.files # {})

\* Mutant: a path given twice counts twice.
shouldSplitCountingRepeats(files, groups) ==
    Len(files) >= MinSplitFiles /\ Len(groups) >= MinSplitConcerns

\* A split is warranted by enough distinct files in enough buckets.
shouldSplit(files, groups) ==
    /\ Cardinality(UNION {groups[k].files : k \in 1..Len(groups)}) >= MinSplitFiles
    /\ Len(groups) >= MinSplitConcerns

partition(files) ==
    LET groups == groupFiles(files)
    IN  [shouldSplit |-> shouldSplit(files, groups), groups |-> groups]

P_Types  == <<"s", "r", "c", "/", "t", "y", "p", "e", "s", ".", "t", "s">>
P_Config == <<"c", "o", "n", "f", "i", "g", ".", "j", "s", "o", "n">>
P_A      == <<"s", "r", "c", "/", "a", ".", "t", "s">>
P_B      == <<"s", "r", "c", "/", "b", ".", "t", "s">>
P_Api    == <<"s", "r", "c", "/", "a", "p", "i", "/", "c", ".", "t", "s">>
P_Css    == <<"a", ".", "c", "s", "s">>
P_Other  == <<"L", "I", "C", "E", "N", "S", "E">>

PartPool == {P_Types, F_Readme, P_Config, F_Test, P_A, P_B, P_Api, P_Css, P_Other}

InitPartition ==
    /\ pFiles \in SeqsUpTo(PartPool, MaxPartFiles)
    /\ pPc = "start"
    /\ pResult = NoPartition
    /\ AnalyzeIdle
    /\ SuggestIdle
    /\ RunIdle
    /\ HistoryIdle
    /\ FormatIdle

Partition ==
    /\ pPc = "start"
    /\ pResult' = partition(pFiles)
    /\ pPc' = "done"
    /\ UNCHANGED pFiles
    /\ UNCHANGED <<avars, svars, rvars, hvars, fvars>>

NextPartition == Partition

SpecPartition == InitPartition /\ [][NextPartition]_vars

DistinctFiles(files) == {files[i] : i \in 1..Len(files)}
DistinctConcerns(files) == {classify(f) : f \in DistinctFiles(files)}

\* C10: shouldSplit is true exactly when the distinct files are at least 4
\* and the non-empty concern buckets at least 2: true for src/types.ts,
\* README.md, config.json, __tests__/a.test.ts and false for src/a.ts, src/b.ts.
C10_ShouldSplit ==
    pPc = "done" =>
        /\ pResult.shouldSplit <=>
              /\ Cardinality(DistinctFiles(pFiles)) >= 4
              /\ Cardinality(DistinctConcerns(pFiles)) >= 2
        /\ pFiles = <<P_Types, F_Readme, P_Config, F_Test>> => pResult.shouldSplit
        /\ pFiles = <<P_A, P_B>> => ~pResult.shouldSplit

\* The four files of four concerns were partitioned, and a split is advised.
C10_Witness ==
    /\ pPc = "done"
    /\ pFiles = <<P_Types, F_Readme, P_Config, F_Test>>
    /\ pResult.shouldSplit
    /\ Len(pResult.groups) = 4

\* C11: the groups of a partition are a partition of the input files: every
\* input file is in exactly one group, no group holds a file that was not
\* given, and no file is in two groups.
C11_Partition ==
    pPc = "done" =>
        LET groups == pResult.groups
            holding(f) == {k \in 1..Len(groups) : f \in groups[k].files}
        IN  /\ \A f \in DistinctFiles(pFiles) : Cardinality(holding(f)) = 1
            /\ \A k \in 1..Len(groups) : groups[k].files \subseteq DistinctFiles(pFiles)
            /\ \A k, l \in 1..Len(groups) :
                   k # l => groups[k].files \cap groups[l].files = {}

\* Two files of one concern, one given twice, and a file no marker claims
\* were partitioned into two groups.
C11_Witness ==
    /\ pPc = "done"
    /\ pFiles = <<P_A, P_Other, P_B, P_A>>
    /\ Len(pResult.groups) = 2
    /\ pResult.groups[1].files = {P_A, P_B}
    /\ pResult.groups[2].files = {P_Other}

====
